---------------------------- MODULE Spec2Model ----------------------------
(***************************************************************************)
(* Model of src/Dashboard.py: the class AdvancedSacredBooksAnalysis, its   *)
(* static tables and the script run run_advanced_dashboard.                *)
(*                                                                         *)
(* Numbers.  The program's figures are decimal literals.  The model keeps  *)
(* every field as an integer, the literal multiplied by the power of ten   *)
(* that makes it whole:                                                    *)
(*   vocabulary_richness, 'Richesse Lexicale'             x 100            *)
(*   avg_verse_length, repetition_rate, thematic_cohesion,                 *)
(*   grammatical_complexity, semantic_density, oral_preservation,          *)
(*   legal_influence, the other linguistic_data rows       x 10            *)
(*   every other field (counts and years)                  x 1             *)
(* Derived scores are exact: composite_score and complexity_score are in   *)
(* units of 1/10000, a normalized value is the fraction <<num, den>>.      *)
(* Floating-point rounding of the Python arithmetic is not modelled.       *)
(***************************************************************************)
EXTENDS Integers, Sequences, FiniteSets, TLC

VARIABLES
    books_data,        \* self.books_data
    thematic_data,     \* self.thematic_data
    linguistic_data,   \* self.linguistic_data
    historical_data,   \* self.historical_data
    analysis_type,     \* sidebar selectbox "Type d'analyse"
    show_technical,    \* sidebar checkbox
    show_comparative,  \* sidebar checkbox
    selected_book,     \* selectbox of the metrics dashboard
    metric_name,       \* <<section, metric>> handed to the cross-book normalizer
    pc,                \* position of the script run
    rendered,          \* components rendered so far in this run, in order
    header_metrics,    \* the four totals of create_advanced_header
    traces,            \* radar traces of create_structural_analysis
    complexity_data,   \* complexity_data of create_structural_analysis
    composite_score,   \* composite_score of create_advanced_metrics_dashboard
    composite_display, \* the score as displayed, f"{composite_score:.1f}", in tenths
    network_view,      \* figures and metrics of create_thematic_network_analysis
    linguistic_view,   \* per-book complexity_score of create_linguistic_analysis
    norm_out,          \* result of the cross-book normalizer for metric_name
    runs,              \* history: script runs started so far
    previous_run       \* history: <<>> or <<r>>, r what the previous run chose and showed

vars == <<books_data, thematic_data, linguistic_data, historical_data,
          analysis_type, show_technical, show_comparative, selected_book,
          metric_name, pc, rendered, header_metrics, traces, complexity_data,
          composite_score, composite_display, network_view, linguistic_view,
          norm_out, runs, previous_run>>

tables == <<books_data, thematic_data, linguistic_data, historical_data>>
outputs == <<header_metrics, traces, complexity_data, composite_score,
             composite_display, network_view, linguistic_view, norm_out>>

history == <<runs, previous_run>>

widgets == <<analysis_type, show_technical, show_comparative, selected_book>>

-----------------------------------------------------------------------------
(* The three fixed keys, in the order every loop of the program uses.      *)
BookList == <<"Coran", "Torah", "Bible">>

Books == {BookList[i] : i \in 1..Len(BookList)}

AnalysisTypes ==
    {"Vue d'ensemble", "Structure", "Linguistique", "Thématiques",
     "Historique", "Insights"}

StructuralFields ==
    {"avg_verse_length", "vocabulary_richness", "repetition_rate",
     "rhythmic_patterns", "thematic_cohesion"}

LinguisticFields ==
    {"unique_words", "root_words", "grammatical_complexity",
     "semantic_density", "oral_preservation"}

HistoricalFields ==
    {"manuscripts_earliest", "translations_timeline", "academic_studies",
     "cultural_references", "legal_influence"}

Sections == {"structural_analysis", "linguistic_features", "historical_impact"}

FieldsOf(section) ==
    CASE section = "structural_analysis" -> StructuralFields
      [] section = "linguistic_features" -> LinguisticFields
      [] section = "historical_impact"   -> HistoricalFields

AllMetrics == {<<s, f>> : s \in Sections, f \in StructuralFields \cup LinguisticFields \cup HistoricalFields}

MetricNames == {m \in AllMetrics : m[2] \in FieldsOf(m[1])}

-----------------------------------------------------------------------------
(* load_advanced_data with the key 'manuscripts_earliest' left out of the   *)
(* record of Bible.                                                         *)
load_advanced_data_incomplete ==
    [Coran |->
        [structural_analysis |->
            [avg_verse_length |-> 256, vocabulary_richness |-> 85,
             repetition_rate |-> 123, rhythmic_patterns |-> 94,
             thematic_cohesion |-> 92],
         linguistic_features |->
            [unique_words |-> 14870, root_words |-> 1726,
             grammatical_complexity |-> 87, semantic_density |-> 91,
             oral_preservation |-> 999],
         historical_impact |->
            [manuscripts_earliest |-> 642, translations_timeline |-> 112,
             academic_studies |-> 125000, cultural_references |-> 890000,
             legal_influence |-> 95]],
     Torah |->
        [structural_analysis |->
            [avg_verse_length |-> 183, vocabulary_richness |-> 78,
             repetition_rate |-> 87, rhythmic_patterns |-> 45,
             thematic_cohesion |-> 88],
         linguistic_features |->
            [unique_words |-> 8920, root_words |-> 1850,
             grammatical_complexity |-> 79, semantic_density |-> 84,
             oral_preservation |-> 952],
         historical_impact |->
            [manuscripts_earliest |-> -250, translations_timeline |-> 25,
             academic_studies |-> 89000, cultural_references |-> 450000,
             legal_influence |-> 98]],
     Bible |->
        [structural_analysis |->
            [avg_verse_length |-> 221, vocabulary_richness |-> 92,
             repetition_rate |-> 158, rhythmic_patterns |-> 67,
             thematic_cohesion |-> 85],
         linguistic_features |->
            [unique_words |-> 12850, root_words |-> 4200,
             grammatical_complexity |-> 82, semantic_density |-> 88,
             oral_preservation |-> 978],
         historical_impact |->
            [translations_timeline |-> 1382,
             academic_studies |-> 450000, cultural_references |-> 2500000,
             legal_influence |-> 92]]]

(* load_advanced_data with the repetition_rate of Bible entered as 158     *)
(* percent instead of 15.8.                                                *)
load_advanced_data_out_of_range ==
    [Coran |->
        [structural_analysis |->
            [avg_verse_length |-> 256, vocabulary_richness |-> 85,
             repetition_rate |-> 123, rhythmic_patterns |-> 94,
             thematic_cohesion |-> 92],
         linguistic_features |->
            [unique_words |-> 14870, root_words |-> 1726,
             grammatical_complexity |-> 87, semantic_density |-> 91,
             oral_preservation |-> 999],
         historical_impact |->
            [manuscripts_earliest |-> 642, translations_timeline |-> 112,
             academic_studies |-> 125000, cultural_references |-> 890000,
             legal_influence |-> 95]],
     Torah |->
        [structural_analysis |->
            [avg_verse_length |-> 183, vocabulary_richness |-> 78,
             repetition_rate |-> 87, rhythmic_patterns |-> 45,
             thematic_cohesion |-> 88],
         linguistic_features |->
            [unique_words |-> 8920, root_words |-> 1850,
             grammatical_complexity |-> 79, semantic_density |-> 84,
             oral_preservation |-> 952],
         historical_impact |->
            [manuscripts_earliest |-> -250, translations_timeline |-> 25,
             academic_studies |-> 89000, cultural_references |-> 450000,
             legal_influence |-> 98]],
     Bible |->
        [structural_analysis |->
            [avg_verse_length |-> 221, vocabulary_richness |-> 92,
             repetition_rate |-> 1580, rhythmic_patterns |-> 67,
             thematic_cohesion |-> 85],
         linguistic_features |->
            [unique_words |-> 12850, root_words |-> 4200,
             grammatical_complexity |-> 82, semantic_density |-> 88,
             oral_preservation |-> 978],
         historical_impact |->
            [manuscripts_earliest |-> 125, translations_timeline |-> 1382,
             academic_studies |-> 450000, cultural_references |-> 2500000,
             legal_influence |-> 92]]]

(* load_advanced_data: the literal of lines 72-142, scaled as stated above. *)
load_advanced_data ==
    [Coran |->
        [structural_analysis |->
            [avg_verse_length |-> 256, vocabulary_richness |-> 85,
             repetition_rate |-> 123, rhythmic_patterns |-> 94,
             thematic_cohesion |-> 92],
         linguistic_features |->
            [unique_words |-> 14870, root_words |-> 1726,
             grammatical_complexity |-> 87, semantic_density |-> 91,
             oral_preservation |-> 999],
         historical_impact |->
            [manuscripts_earliest |-> 642, translations_timeline |-> 112,
             academic_studies |-> 125000, cultural_references |-> 890000,
             legal_influence |-> 95]],
     Torah |->
        [structural_analysis |->
            [avg_verse_length |-> 183, vocabulary_richness |-> 78,
             repetition_rate |-> 87, rhythmic_patterns |-> 45,
             thematic_cohesion |-> 88],
         linguistic_features |->
            [unique_words |-> 8920, root_words |-> 1850,
             grammatical_complexity |-> 79, semantic_density |-> 84,
             oral_preservation |-> 952],
         historical_impact |->
            [manuscripts_earliest |-> -250, translations_timeline |-> 25,
             academic_studies |-> 89000, cultural_references |-> 450000,
             legal_influence |-> 98]],
     Bible |->
        [structural_analysis |->
            [avg_verse_length |-> 221, vocabulary_richness |-> 92,
             repetition_rate |-> 158, rhythmic_patterns |-> 67,
             thematic_cohesion |-> 85],
         linguistic_features |->
            [unique_words |-> 12850, root_words |-> 4200,
             grammatical_complexity |-> 82, semantic_density |-> 88,
             oral_preservation |-> 978],
         historical_impact |->
            [manuscripts_earliest |-> 125, translations_timeline |-> 1382,
             academic_studies |-> 450000, cultural_references |-> 2500000,
             legal_influence |-> 92]]]

(* load_thematic_analysis: lines 147-166.                                   *)
load_thematic_analysis ==
    [ThemesTheologiques |->
        [Coran |-> <<95, 90, 85, 80, 92, 88, 75>>,
         Torah |-> <<90, 85, 95, 75, 90, 70, 60>>,
         Bible |-> <<85, 88, 75, 90, 85, 95, 85>>,
         SousThemes |-> <<"Monothéisme", "Prophétie", "Révélation", "Salut",
                          "Divinité", "Grâce", "Jugement">>],
     ThemesEthiques |->
        [Coran |-> <<88, 92, 85, 78, 90, 82, 75>>,
         Torah |-> <<85, 90, 92, 80, 88, 75, 70>>,
         Bible |-> <<90, 85, 88, 92, 85, 90, 80>>,
         SousThemes |-> <<"Justice", "Compassion", "Honnêteté", "Pardon",
                          "Humilité", "Générosité", "Paix">>],
     ThemesSociaux |->
        [Coran |-> <<85, 80, 90, 75, 82, 88, 70>>,
         Torah |-> <<90, 85, 92, 88, 85, 80, 75>>,
         Bible |-> <<80, 85, 78, 90, 82, 85, 88>>,
         SousThemes |-> <<"Famille", "Communauté", "Autorité", "Économie",
                          "Guerre", "Diplomatie", "Éducation">>]]

(* load_linguistic_analysis with the 'Complexité Syntaxique' of Bible at 8.5, *)
(* not the 8.2 of the record.                                               *)
load_linguistic_analysis_diverging ==
    [f \in {"Complexité Syntaxique", "Densité Sémantique", "Richesse Lexicale",
            "Répétition Stylistique", "Structure Narrative"} |->
        CASE f = "Complexité Syntaxique"  -> [Coran |-> 87, Torah |-> 79, Bible |-> 85]
          [] f = "Densité Sémantique"     -> [Coran |-> 91, Torah |-> 84, Bible |-> 88]
          [] f = "Richesse Lexicale"      -> [Coran |-> 85, Torah |-> 78, Bible |-> 92]
          [] f = "Répétition Stylistique" -> [Coran |-> 123, Torah |-> 87, Bible |-> 158]
          [] f = "Structure Narrative"    -> [Coran |-> 78, Torah |-> 92, Bible |-> 85]]

(* load_linguistic_analysis: lines 171-187 (x 10; 'Richesse Lexicale' x 100). *)
load_linguistic_analysis ==
    [f \in {"Complexité Syntaxique", "Densité Sémantique", "Richesse Lexicale",
            "Répétition Stylistique", "Structure Narrative"} |->
        CASE f = "Complexité Syntaxique"  -> [Coran |-> 87, Torah |-> 79, Bible |-> 82]
          [] f = "Densité Sémantique"     -> [Coran |-> 91, Torah |-> 84, Bible |-> 88]
          [] f = "Richesse Lexicale"      -> [Coran |-> 85, Torah |-> 78, Bible |-> 92]
          [] f = "Répétition Stylistique" -> [Coran |-> 123, Torah |-> 87, Bible |-> 158]
          [] f = "Structure Narrative"    -> [Coran |-> 78, Torah |-> 92, Bible |-> 85]]

(* load_historical_analysis: the DataFrame of lines 192-201, by column.      *)
load_historical_analysis ==
    [Annee |-> <<-1500, -1000, -500, 0, 500, 1000, 1500, 2000>>,
     Coran |-> <<0, 0, 0, 0, 10, 45, 70, 95>>,
     Torah |-> <<5, 30, 60, 75, 80, 82, 85, 88>>,
     Bible |-> <<0, 5, 20, 40, 65, 80, 90, 98>>,
     Evenement |-> <<"Textes anciens", "Rédaction Torah", "Canonisation",
                     "Jésus-Christ", "Expansion islam", "Schisme", "Réforme",
                     "Globalisation">>]

-----------------------------------------------------------------------------
(* A dictionary lookup d[book][section][field] raises KeyError when the key *)
(* is absent; Has says it does not.                                         *)
Has(bd, book, section, field) ==
    /\ book \in DOMAIN bd
    /\ section \in DOMAIN bd[book]
    /\ field \in DOMAIN bd[book][section]

HasAll(bd, books, section, fields) ==
    \A b \in books : \A f \in fields : Has(bd, b, section, f)


(* Python's max over a non-empty list of numbers.                           *)
Max(S) == CHOOSE x \in S : \A y \in S : y <= x

Min(S) == CHOOSE x \in S : \A y \in S : x <= y

RECURSIVE Sum(_)
(* Python's sum over a list.                                                *)
Sum(s) == IF s = <<>> THEN 0 ELSE s[1] + Sum(Tail(s))

-----------------------------------------------------------------------------
(* Cross-book normalizer, lines 244-248.  The code runs it on the section   *)
(* 'structural_analysis' with the five names of line 239; section and       *)
(* metrics are parameters here.                                             *)

(* line 245: values = [books_data[book][section][metric] for metric in metrics] *)
values(bd, book, section, metrics) ==
    [i \in DOMAIN metrics |-> bd[book][section][metrics[i]]]

(* A normalizer that takes the maximum over the first two books only.       *)
max_vals_first_two(bd, section, metrics) ==
    [i \in DOMAIN metrics |->
        Max({bd[BookList[j]][section][metrics[i]] : j \in 1..2})]

(* A normalizer that divides by the smallest value.                         *)
max_vals_min(bd, section, metrics) ==
    [i \in DOMAIN metrics |->
        Min({bd[b][section][metrics[i]] : b \in Books})]

(* line 247: max_vals = [max([books_data[b][section][m] for b in books]) for m in metrics] *)
max_vals(bd, section, metrics) ==
    [i \in DOMAIN metrics |->
        Max({bd[b][section][metrics[i]] : b \in Books})]

(* line 248: normalized = [v/max_v * 100 for v, max_v in zip(values, max_vals)], *)
(* each value kept as the exact fraction <<numerator, denominator>>.        *)
normalized(vals, maxs) ==
    [i \in DOMAIN vals |-> <<vals[i] * 100, maxs[i]>>]

(* v/max_v raises ZeroDivisionError when a maximum is 0.                    *)
ZeroDivision(bd, section, metrics) ==
    \E i \in DOMAIN metrics : max_vals(bd, section, metrics)[i] = 0

(* lines 244-256: one trace per book, in the order of the loop.             *)
radar_traces(bd, section, metrics) ==
    [j \in DOMAIN BookList |->
        [name |-> BookList[j],
         r    |-> normalized(values(bd, BookList[j], section, metrics),
                             max_vals(bd, section, metrics))]]

(* line 239 *)
metrics == <<"avg_verse_length", "vocabulary_richness", "repetition_rate",
             "rhythmic_patterns", "thematic_cohesion">>

-----------------------------------------------------------------------------
(* A complexity index that keeps a running total across script runs.        *)
complexity_score_accumulating(bd, book) ==
    LET data == bd[book]["structural_analysis"]
    IN  runs * (data["vocabulary_richness"] * 30
                + data["thematic_cohesion"] * 250
                + (1000 - data["repetition_rate"]) * 200
                + data["rhythmic_patterns"] * 25)

(* A complexity index clamped to the 0-100 display range.                   *)
complexity_score_clamped(bd, book) ==
    LET data == bd[book]["structural_analysis"]
        raw == data["vocabulary_richness"] * 30
               + data["thematic_cohesion"] * 250
               + (1000 - data["repetition_rate"]) * 200
               + data["rhythmic_patterns"] * 25
    IN  IF raw < 0 THEN 0 ELSE IF raw > 1000000 THEN 1000000 ELSE raw

(* lines 271-277, in units of 1/10000:                                      *)
(*   (vr/100 * 30 + tc/10 * 25 + (100 - rr/10) * 20 + rp * 0.25) / 100      *)
(*   = (30 vr + 250 tc + 200 (1000 - rr) + 25 rp) / 10000                   *)
complexity_score(bd, book) ==
    LET data == bd[book]["structural_analysis"]
    IN  data["vocabulary_richness"] * 30
        + data["thematic_cohesion"] * 250
        + (1000 - data["repetition_rate"]) * 200
        + data["rhythmic_patterns"] * 25

(* A composite score that forgets to divide oral_preservation by 10.        *)
composite_score_undivided(bd, book) ==
    LET book_data == bd[book]
        structural == book_data["structural_analysis"]
        linguistic == book_data["linguistic_features"]
        historical == book_data["historical_impact"]
    IN  structural["thematic_cohesion"] * 200
        + linguistic["semantic_density"] * 250
        + historical["legal_influence"] * 300
        + linguistic["oral_preservation"] * 250

(* A composite score with the weights of semantic_density and              *)
(* legal_influence exchanged.                                               *)
composite_score_swapped(bd, book) ==
    LET book_data == bd[book]
        structural == book_data["structural_analysis"]
        linguistic == book_data["linguistic_features"]
        historical == book_data["historical_impact"]
    IN  structural["thematic_cohesion"] * 200
        + linguistic["semantic_density"] * 300
        + historical["legal_influence"] * 250
        + linguistic["oral_preservation"] * 25

(* A composite score that reads legal_influence from the first book.        *)
composite_score_first_book(bd, book) ==
    LET book_data == bd[book]
        structural == book_data["structural_analysis"]
        linguistic == book_data["linguistic_features"]
        historical == bd[BookList[1]]["historical_impact"]
    IN  structural["thematic_cohesion"] * 200
        + linguistic["semantic_density"] * 250
        + historical["legal_influence"] * 300
        + linguistic["oral_preservation"] * 25

(* line 649, f"{composite_score:.1f}": a score in units of 1/10000 rounded  *)
(* to tenths, a tie going to the even tenth.  The tie is taken on the exact *)
(* decimal value; the scores of the fixed records are not ties.             *)
Format1(v) ==
    LET q == v \div 1000
        r == v % 1000
    IN  IF r > 500 THEN q + 1
        ELSE IF r < 500 THEN q
        ELSE IF q % 2 = 0 THEN q ELSE q + 1

(* lines 586, 592, 607, 622, 638-643, in units of 1/10000:                  *)
(*   tc/10 * 0.2 + sd/10 * 0.25 + li/10 * 0.3 + (op/10 / 10) * 0.25         *)
(*   = (200 tc + 250 sd + 300 li + 25 op) / 10000                           *)
composite_score_of(bd, book) ==
    LET book_data == bd[book]
        structural == book_data["structural_analysis"]
        linguistic == book_data["linguistic_features"]
        historical == book_data["historical_impact"]
    IN  structural["thematic_cohesion"] * 200
        + linguistic["semantic_density"] * 250
        + historical["legal_influence"] * 300
        + linguistic["oral_preservation"] * 25

-----------------------------------------------------------------------------
(* Bounds of the model.                                                     *)
MaxRuns == 2

(* Input records take each score at the fractions k/Levels of its           *)
(* documented top, k from -1 (below the range) to Levels + 1 (above it).    *)
Levels == 2

(* Three books' values of one metric range over -1..MaxVal.                 *)
MaxVal == 2

(* AdvancedSacredBooksAnalysis.__init__, lines 64-68: the four tables are    *)
(* loaded; nothing is validated.                                            *)
Construct ==
    /\ books_data = load_advanced_data
    /\ thematic_data = load_thematic_analysis
    /\ linguistic_data = load_linguistic_analysis
    /\ historical_data = load_historical_analysis

(* No output is computed before the run reaches the component computing it. *)
NoOutputs ==
    /\ header_metrics = <<>>
    /\ traces = <<>>
    /\ complexity_data = <<>>
    /\ composite_score = <<>>
    /\ composite_display = <<>>
    /\ network_view = <<>>
    /\ linguistic_view = <<>>
    /\ norm_out = <<>>

(* The widgets' values on the first load: each selectbox shows its first    *)
(* option (lines 678, 583), each checkbox its default True (lines 681-682). *)
WidgetDefaults ==
    /\ analysis_type = "Vue d'ensemble"
    /\ show_technical = TRUE
    /\ show_comparative = TRUE
    /\ selected_book = BookList[1]

(* State after line 717: the object is constructed, the run not yet begun.  *)
Init ==
    /\ Construct
    /\ WidgetDefaults
    /\ NoOutputs
    /\ metric_name = <<>>
    /\ pc = "start"
    /\ rendered = <<>>
    /\ runs = 1
    /\ previous_run = <<>>

(* A component raised (KeyError, ZeroDivisionError): the script run stops.  *)
Raise ==
    /\ pc' = "failed"
    /\ UNCHANGED <<tables, widgets, metric_name, rendered, outputs, history>>

(* run_advanced_dashboard, lines 674-682: the sidebar widgets return what   *)
(* the user has chosen.                                                     *)
run_advanced_dashboard ==
    /\ pc = "start"
    /\ analysis_type' \in AnalysisTypes
    /\ show_technical' \in BOOLEAN
    /\ show_comparative' \in BOOLEAN
    /\ pc' = "header"
    /\ UNCHANGED <<tables, selected_book, metric_name, rendered, outputs, history>>

(* A header shown only when "Afficher les métriques techniques" is ticked.  *)
create_advanced_header_if_technical ==
    /\ pc = "header"
    /\ pc' = "section"
    /\ rendered' = IF show_technical THEN Append(rendered, "header") ELSE rendered
    /\ UNCHANGED <<tables, widgets, metric_name, outputs, history>>

(* A header that writes the average preservation back into the records.     *)
create_advanced_header_inplace ==
    /\ pc = "header"
    /\ pc' = "section"
    /\ rendered' = Append(rendered, "header")
    /\ header_metrics' = <<>>
    /\ books_data' = [books_data EXCEPT
            ![BookList[1]]["linguistic_features"]["oral_preservation"] =
                Sum([j \in DOMAIN BookList |->
                    books_data[BookList[j]]["linguistic_features"]["oral_preservation"]]) \div 3]
    /\ UNCHANGED <<thematic_data, linguistic_data, historical_data, widgets,
                   metric_name, traces, complexity_data, composite_score,
                   composite_display, network_view, linguistic_view, norm_out,
                   history>>

(* create_advanced_header, lines 204-226 (called at line 685).              *)
create_advanced_header ==
    /\ pc = "header"
    /\ IF /\ "Complexité Syntaxique" \in DOMAIN linguistic_data
          /\ Books \subseteq DOMAIN linguistic_data["Complexité Syntaxique"]
          /\ HasAll(books_data, Books, "linguistic_features", {"oral_preservation"})
          /\ HasAll(books_data, Books, "historical_impact",
                    {"legal_influence", "academic_studies"})
       THEN /\ header_metrics' =
                [total_complexity |->
                    Sum([j \in DOMAIN BookList |->
                        linguistic_data["Complexité Syntaxique"][BookList[j]]]),
                 total_preservation |->
                    Sum([j \in DOMAIN BookList |->
                        books_data[BookList[j]]["linguistic_features"]["oral_preservation"]]),
                 total_influence |->
                    Sum([j \in DOMAIN BookList |->
                        books_data[BookList[j]]["historical_impact"]["legal_influence"]]),
                 total_studies |->
                    Sum([j \in DOMAIN BookList |->
                        books_data[BookList[j]]["historical_impact"]["academic_studies"]])]
            /\ rendered' = Append(rendered, "header")
            /\ pc' = "section"
            /\ UNCHANGED <<tables, widgets, metric_name, traces, complexity_data,
                           composite_score, composite_display, network_view,
                           linguistic_view, norm_out, history>>
       ELSE Raise

(* A metrics dashboard that shows the score of the book selected before.    *)
create_advanced_metrics_dashboard_stale ==
    /\ pc = "section"
    /\ analysis_type = "Vue d'ensemble"
    /\ \E book \in Books :
        /\ selected_book' = book
        /\ composite_score' = <<composite_score_of(books_data, selected_book)>>
        /\ composite_display' = <<Format1(composite_score_of(books_data, selected_book))>>
        /\ rendered' = Append(rendered, "metrics_dashboard")
        /\ pc' = "footer"
    /\ UNCHANGED <<tables, analysis_type, show_technical, show_comparative,
                   metric_name, header_metrics, traces, complexity_data,
                   network_view, linguistic_view, norm_out, history>>

(* create_advanced_metrics_dashboard, lines 577-652 (called at line 689):   *)
(* the selectbox returns the user's book; all fifteen fields of its record  *)
(* are read, then the composite score is computed.                          *)
create_advanced_metrics_dashboard ==
    /\ pc = "section"
    /\ analysis_type = "Vue d'ensemble"
    /\ \E book \in Books :
        /\ selected_book' = book
        /\ IF \A s \in Sections : HasAll(books_data, {book}, s, FieldsOf(s))
           THEN /\ composite_score' = <<composite_score_of(books_data, book)>>
                /\ composite_display' = <<Format1(composite_score_of(books_data, book))>>
                /\ rendered' = Append(rendered, "metrics_dashboard")
                /\ pc' = "footer"
           ELSE /\ pc' = "failed"
                /\ UNCHANGED <<composite_score, composite_display, rendered>>
    /\ UNCHANGED <<tables, analysis_type, show_technical, show_comparative,
                   metric_name, header_metrics, traces, complexity_data,
                   network_view, linguistic_view, norm_out, history>>

(* create_structural_analysis, lines 228-300 (called at line 692).          *)
create_structural_analysis ==
    /\ pc = "section"
    /\ analysis_type = "Structure"
    /\ IF /\ HasAll(books_data, Books, "structural_analysis", StructuralFields)
          /\ ~ZeroDivision(books_data, "structural_analysis", metrics)
       THEN /\ traces' = radar_traces(books_data, "structural_analysis", metrics)
            /\ complexity_data' =
                [j \in DOMAIN BookList |->
                    [Livre |-> BookList[j],
                     Complexite |-> complexity_score(books_data, BookList[j])]]
            /\ rendered' = Append(rendered, "structural_analysis")
            /\ pc' = "footer"
            /\ UNCHANGED <<tables, widgets, metric_name, header_metrics,
                           composite_score, composite_display, network_view,
                           linguistic_view, norm_out, history>>
       ELSE Raise

(* create_linguistic_analysis, lines 302-361 (called at line 695); the      *)
(* per-book complexity_score (sd + gc) / 2 is kept in units of 1/100.       *)
create_linguistic_analysis ==
    /\ pc = "section"
    /\ analysis_type = "Linguistique"
    /\ IF /\ \A f \in {"Complexité Syntaxique", "Densité Sémantique", "Richesse Lexicale"} :
                f \in DOMAIN linguistic_data /\ Books \subseteq DOMAIN linguistic_data[f]
          /\ HasAll(books_data, Books, "structural_analysis",
                    {"avg_verse_length", "vocabulary_richness", "thematic_cohesion"})
          /\ HasAll(books_data, Books, "linguistic_features", LinguisticFields)
       THEN /\ linguistic_view' =
                [j \in DOMAIN BookList |->
                    LET data == books_data[BookList[j]]["linguistic_features"]
                    IN  [book |-> BookList[j],
                         complexity_score |->
                            (data["semantic_density"] + data["grammatical_complexity"]) * 5]]
            /\ rendered' = Append(rendered, "linguistic_analysis")
            /\ pc' = "footer"
            /\ UNCHANGED <<tables, widgets, metric_name, header_metrics, traces,
                           complexity_data, composite_score, composite_display,
                           network_view, norm_out, history>>
       ELSE Raise

(* thematic_networks, lines 368-393 (field 'nœuds' as noeuds).              *)
thematic_networks ==
    [Coran |->
        [noeuds |-> <<"Monothéisme", "Prophètes", "Loi", "Éthique", "Jugement", "Création">>,
         liens |-> << <<"Monothéisme", "Prophètes", 95>>, <<"Monothéisme", "Loi", 88>>,
                      <<"Prophètes", "Loi", 82>>, <<"Loi", "Éthique", 90>>,
                      <<"Éthique", "Jugement", 85>>, <<"Monothéisme", "Création", 92>> >>],
     Torah |->
        [noeuds |-> <<"Alliance", "Loi", "Histoire", "Sacrifice", "Territoire", "Pure té">>,
         liens |-> << <<"Alliance", "Loi", 98>>, <<"Alliance", "Histoire", 88>>,
                      <<"Loi", "Sacrifice", 85>>, <<"Histoire", "Territoire", 92>>,
                      <<"Loi", "Pure té", 90>>, <<"Sacrifice", "Pure té", 82>> >>],
     Bible |->
        [noeuds |-> <<"Salut", "Amour", "Grâce", "Rédemption", "Église", "Royaume">>,
         liens |-> << <<"Salut", "Amour", 92>>, <<"Salut", "Grâce", 95>>,
                      <<"Amour", "Grâce", 88>>, <<"Grâce", "Rédemption", 90>>,
                      <<"Rédemption", "Église", 85>>, <<"Salut", "Royaume", 82>> >>]]

(* node_positions, lines 405-412, each coordinate doubled (0.5 is 1).       *)
node_positions ==
    ("Monothéisme" :> <<0, 2>>) @@ ("Prophètes" :> <<2, 2>>) @@ ("Loi" :> <<1, 1>>) @@
    ("Éthique" :> <<0, 0>>) @@ ("Jugement" :> <<2, 0>>) @@ ("Création" :> <<1, 3>>) @@
    ("Alliance" :> <<0, 2>>) @@ ("Histoire" :> <<2, 2>>) @@ ("Sacrifice" :> <<1, 1>>) @@
    ("Territoire" :> <<0, 0>>) @@ ("Pure té" :> <<2, 0>>) @@ ("Salut" :> <<1, 3>>) @@
    ("Amour" :> <<0, 2>>) @@ ("Grâce" :> <<2, 2>>) @@ ("Rédemption" :> <<1, 1>>) @@
    ("Église" :> <<0, 0>>) @@ ("Royaume" :> <<2, 0>>)

(* Every name the figure of a book looks up in node_positions is a key.     *)
PositionsDefined(book) ==
    LET network == thematic_networks[book]
    IN  /\ \A i \in DOMAIN network.liens :
            /\ network.liens[i][1] \in DOMAIN node_positions
            /\ network.liens[i][2] \in DOMAIN node_positions
        /\ \A i \in DOMAIN network.noeuds :
            network.noeuds[i] \in DOMAIN node_positions

(* lines 402-458 for one book: the link traces (lines 417-425), the node    *)
(* trace (lines 428-438) and the three metrics (lines 453-458); a link      *)
(* width, the average weight and the density are fractions <<n, d>>.        *)
network_figure(book) ==
    LET network == thematic_networks[book]
        n == Len(network.noeuds)
    IN  [book |-> book,
         links |->
            [i \in DOMAIN network.liens |->
                LET source == network.liens[i][1]
                    target == network.liens[i][2]
                    weight == network.liens[i][3]
                IN  [x |-> <<node_positions[source][1], node_positions[target][1]>>,
                     y |-> <<node_positions[source][2], node_positions[target][2]>>,
                     width |-> <<weight, 20>>]],
         node_x |-> [i \in DOMAIN network.noeuds |-> node_positions[network.noeuds[i]][1]],
         node_y |-> [i \in DOMAIN network.noeuds |-> node_positions[network.noeuds[i]][2]],
         text |-> network.noeuds,
         n_nodes |-> n,
         avg_weight |-> <<Sum([i \in DOMAIN network.liens |-> network.liens[i][3]]),
                          Len(network.liens)>>,
         density |-> <<Len(network.liens) * 200, n * (n - 1)>>]

(* create_thematic_network_analysis, lines 363-458 (called at line 698):    *)
(* one figure per book, from the local tables only.                         *)
create_thematic_network_analysis ==
    /\ pc = "section"
    /\ analysis_type = "Thématiques"
    /\ IF \A b \in Books : PositionsDefined(b)
       THEN /\ network_view' = [j \in DOMAIN BookList |-> network_figure(BookList[j])]
            /\ rendered' = Append(rendered, "thematic_network_analysis")
            /\ pc' = "footer"
            /\ UNCHANGED <<tables, widgets, metric_name, header_metrics, traces,
                           complexity_data, composite_score, composite_display,
                           linguistic_view, norm_out, history>>
       ELSE Raise

(* A historical section whose branch also answers to "Insights".            *)
create_historical_evolution_two_labels ==
    /\ pc = "section"
    /\ analysis_type \in {"Historique", "Insights"}
    /\ rendered' = Append(rendered, "historical_evolution")
    /\ pc' = "footer"
    /\ UNCHANGED <<tables, widgets, metric_name, outputs, history>>

(* create_historical_evolution, lines 460-526 (called at line 701): it      *)
(* reads historical_data and local tables.                                  *)
create_historical_evolution ==
    /\ pc = "section"
    /\ analysis_type = "Historique"
    /\ rendered' = Append(rendered, "historical_evolution")
    /\ pc' = "footer"
    /\ UNCHANGED <<tables, widgets, metric_name, outputs, history>>

(* create_comparative_insights, lines 528-575 (called at line 704).         *)
create_comparative_insights ==
    /\ pc = "section"
    /\ analysis_type = "Insights"
    /\ rendered' = Append(rendered, "comparative_insights")
    /\ pc' = "footer"
    /\ UNCHANGED <<tables, widgets, metric_name, outputs, history>>

(* The footer, lines 706-713.                                               *)
Footer ==
    /\ pc = "footer"
    /\ rendered' = Append(rendered, "footer")
    /\ pc' = "done"
    /\ UNCHANGED <<tables, widgets, metric_name, outputs, history>>

(* What a run chose and showed, as it stands when the run has ended.        *)
RunRecord ==
    [analysis_type |-> analysis_type,
     show_technical |-> show_technical,
     show_comparative |-> show_comparative,
     selected_book |-> selected_book,
     pc |-> pc,
     rendered |-> rendered,
     header_metrics |-> header_metrics,
     traces |-> traces,
     complexity_data |-> complexity_data,
     composite_score |-> composite_score,
     composite_display |-> composite_display,
     linguistic_view |-> linguistic_view,
     network_view |-> network_view]

(* A widget interaction makes the host run the script again from the top:   *)
(* lines 716-718 construct a new object; the widgets keep their values.     *)
Rerun ==
    /\ pc \in {"done", "failed"}
    /\ runs < MaxRuns
    /\ runs' = runs + 1
    /\ previous_run' = <<RunRecord>>
    /\ books_data' = load_advanced_data
    /\ thematic_data' = load_thematic_analysis
    /\ linguistic_data' = load_linguistic_analysis
    /\ historical_data' = load_historical_analysis
    /\ header_metrics' = <<>>
    /\ traces' = <<>>
    /\ complexity_data' = <<>>
    /\ composite_score' = <<>>
    /\ composite_display' = <<>>
    /\ network_view' = <<>>
    /\ linguistic_view' = <<>>
    /\ rendered' = <<>>
    /\ pc' = "start"
    /\ UNCHANGED <<widgets, metric_name, norm_out>>

RunStep ==
    \/ run_advanced_dashboard
    \/ create_advanced_header
    \/ create_advanced_metrics_dashboard
    \/ create_structural_analysis
    \/ create_linguistic_analysis
    \/ create_thematic_network_analysis
    \/ create_historical_evolution
    \/ create_comparative_insights
    \/ Footer

Next == RunStep \/ Rerun

Spec == Init /\ [][Next]_vars

-----------------------------------------------------------------------------
(* The calculators on input records other than the fixed ones.             *)

LevelIdx == (-1)..(Levels + 1)

Level(k, top) == (k * top) \div Levels

(* The fixed records with the four inputs of the composite score of one     *)
(* book replaced (tops: 10.0, 10.0, 10.0 and 100.0 percent).                *)
WithCompositeInputs(book, k) ==
    [load_advanced_data EXCEPT
        ![book]["structural_analysis"]["thematic_cohesion"] = Level(k[1], 100),
        ![book]["linguistic_features"]["semantic_density"] = Level(k[2], 100),
        ![book]["historical_impact"]["legal_influence"] = Level(k[3], 100),
        ![book]["linguistic_features"]["oral_preservation"] = Level(k[4], 1000)]

(* The fixed records with the four inputs of the complexity index of one    *)
(* book replaced (tops: 1.00, 10.0, 100.0 percent and 100 patterns).        *)
WithComplexityInputs(book, k) ==
    [load_advanced_data EXCEPT
        ![book]["structural_analysis"]["vocabulary_richness"] = Level(k[1], 100),
        ![book]["structural_analysis"]["thematic_cohesion"] = Level(k[2], 100),
        ![book]["structural_analysis"]["repetition_rate"] = Level(k[3], 1000),
        ![book]["structural_analysis"]["rhythmic_patterns"] = Level(k[4], 100)]

CalcInputs(type) ==
    {load_advanced_data} \cup
    {IF type = "Structure" THEN WithComplexityInputs(b, k)
                           ELSE WithCompositeInputs(b, k) :
        b \in Books, k \in [1..4 -> LevelIdx]}

InitCalc ==
    /\ analysis_type \in {"Vue d'ensemble", "Structure"}
    /\ books_data \in CalcInputs(analysis_type)
    /\ thematic_data = load_thematic_analysis
    /\ linguistic_data = load_linguistic_analysis
    /\ historical_data = load_historical_analysis
    /\ show_technical = TRUE
    /\ show_comparative = TRUE
    /\ selected_book = BookList[1]
    /\ NoOutputs
    /\ metric_name = <<>>
    /\ pc = "section"
    /\ rendered = <<"header">>
    /\ runs = 1
    /\ previous_run = <<>>

NextCalc == create_advanced_metrics_dashboard \/ create_structural_analysis

SpecCalc == InitCalc /\ [][NextCalc]_vars

-----------------------------------------------------------------------------
(* The cross-book normalizer on any metric and on values other than the     *)
(* fixed ones.                                                              *)

NormVals == (-1)..MaxVal

WithMetric(m, v) ==
    [b \in Books |->
        [load_advanced_data[b] EXCEPT ![m[1]][m[2]] = v[b]]]

InitNorm ==
    /\ metric_name \in MetricNames
    /\ books_data \in {load_advanced_data} \cup
                      {WithMetric(metric_name, v) : v \in [Books -> NormVals]}
    /\ thematic_data = load_thematic_analysis
    /\ linguistic_data = load_linguistic_analysis
    /\ historical_data = load_historical_analysis
    /\ WidgetDefaults
    /\ NoOutputs
    /\ pc = "normalize"
    /\ rendered = <<>>
    /\ runs = 1
    /\ previous_run = <<>>

(* Lines 244-248 for the one metric metric_name: each book's value divided  *)
(* by the maximum over the three books, times 100.                          *)
cross_book_normalizer ==
    /\ pc = "normalize"
    /\ IF /\ HasAll(books_data, Books, metric_name[1], {metric_name[2]})
          /\ ~ZeroDivision(books_data, metric_name[1], <<metric_name[2]>>)
       THEN /\ norm_out' = radar_traces(books_data, metric_name[1], <<metric_name[2]>>)
            /\ pc' = "done"
            /\ UNCHANGED <<tables, widgets, metric_name, rendered, header_metrics,
                           traces, complexity_data, composite_score,
                           composite_display, network_view, linguistic_view,
                           history>>
       ELSE Raise

SpecNorm == InitNorm /\ [][cross_book_normalizer]_vars

-----------------------------------------------------------------------------
(* The script run on records that lack one field.                           *)

Without(bd, book, section, field) ==
    [bd EXCEPT ![book][section] =
        [f \in (DOMAIN bd[book][section]) \ {field} |-> bd[book][section][f]]]

InitMissing ==
    /\ books_data \in {Without(load_advanced_data, b, m[1], m[2]) :
                        b \in Books, m \in MetricNames}
    /\ thematic_data = load_thematic_analysis
    /\ linguistic_data = load_linguistic_analysis
    /\ historical_data = load_historical_analysis
    /\ WidgetDefaults
    /\ NoOutputs
    /\ metric_name = <<>>
    /\ pc = "start"
    /\ rendered = <<>>
    /\ runs = 1
    /\ previous_run = <<>>

SpecMissing == InitMissing /\ [][RunStep]_vars

-----------------------------------------------------------------------------
(* Properties.                                                              *)

Field(book, section, field) == books_data[book][section][field]

(* C1: for each of the three fixed books the composite score computed by    *)
(* the metrics dashboard is thematic_cohesion*0.20 + semantic_density*0.25  *)
(* + legal_influence*0.30 + (oral_preservation/10)*0.25 on that book's      *)
(* record; for Coran it is 9.4625 (Torah 9.18, Bible 9.105).                *)
C1_CompositeFormula ==
    composite_score # <<>> =>
        /\ 10 * composite_score[1] =
              2000 * Field(selected_book, "structural_analysis", "thematic_cohesion")
            + 2500 * Field(selected_book, "linguistic_features", "semantic_density")
            + 3000 * Field(selected_book, "historical_impact", "legal_influence")
            + 250 * Field(selected_book, "linguistic_features", "oral_preservation")
        /\ selected_book = "Coran" => composite_score[1] = 94625
        /\ selected_book = "Torah" => composite_score[1] = 91800
        /\ selected_book = "Bible" => composite_score[1] = 91050

C1_Witness ==
    /\ pc = "done"
    /\ selected_book = "Coran"
    /\ composite_score = <<94625>>

(* The four inputs of the composite score lie in their documented ranges.   *)
CompositeInputsInRange(book) ==
    /\ Field(book, "structural_analysis", "thematic_cohesion") \in 0..100
    /\ Field(book, "linguistic_features", "semantic_density") \in 0..100
    /\ Field(book, "historical_impact", "legal_influence") \in 0..100
    /\ Field(book, "linguistic_features", "oral_preservation") \in 0..1000

(* C2: for every record whose thematic_cohesion, semantic_density and       *)
(* legal_influence lie in 0-10 and whose oral_preservation lies in 0-100,   *)
(* the composite score lies in [0, 10].                                     *)
C2_CompositeScale ==
    (composite_score # <<>> /\ CompositeInputsInRange(selected_book)) =>
        (0 <= composite_score[1] /\ composite_score[1] <= 100000)

C2_Witness ==
    /\ composite_score = <<100000>>
    /\ CompositeInputsInRange(selected_book)
    /\ books_data # load_advanced_data

(* C3: for each book the structural complexity index is                     *)
(* (vocabulary_richness*30 + thematic_cohesion*25 + (100 - repetition_rate) *)
(* *20 + rhythmic_patterns*0.25) / 100 on that book's structural metrics,   *)
(* unclamped, whatever the inputs (20.33, 20.8065 and 19.4085 on the fixed  *)
(* records).                                                                *)
C3_ComplexityFormula ==
    complexity_data # <<>> =>
        /\ \A j \in DOMAIN BookList :
            /\ complexity_data[j].Livre = BookList[j]
            /\ 4 * complexity_data[j].Complexite =
                  120 * Field(BookList[j], "structural_analysis", "vocabulary_richness")
                + 1000 * Field(BookList[j], "structural_analysis", "thematic_cohesion")
                + 800 * (1000 - Field(BookList[j], "structural_analysis", "repetition_rate"))
                + 100 * Field(BookList[j], "structural_analysis", "rhythmic_patterns")
        /\ books_data = load_advanced_data =>
            /\ complexity_data[1].Complexite = 203300
            /\ complexity_data[2].Complexite = 208065
            /\ complexity_data[3].Complexite = 194085

C3_Witness ==
    /\ complexity_data # <<>>
    /\ \E j \in DOMAIN BookList :
        /\ Field(BookList[j], "structural_analysis", "repetition_rate") > 1000
        /\ complexity_data[j].Complexite < 0

(* The metric handed to the normalizer, per book, and its maximum.          *)
MetricValue(book) == Field(book, metric_name[1], metric_name[2])

MetricMaximum ==
    CHOOSE m \in {MetricValue(b) : b \in Books} : \A b \in Books : MetricValue(b) <= m

(* C4: the normalizer returns for each of the three books that book's value *)
(* divided by the maximum of the metric over all three books, times 100;    *)
(* the same maximum whichever book is normalized.                           *)
C4_NormalizerFormula ==
    norm_out # <<>> =>
        \A j \in DOMAIN BookList :
            /\ norm_out[j].name = BookList[j]
            /\ norm_out[j].r = << <<MetricValue(BookList[j]) * 100, MetricMaximum>> >>

C4_Witness ==
    /\ norm_out # <<>>
    /\ MetricValue("Bible") > MetricValue("Torah")
    /\ MetricValue("Torah") > MetricValue("Coran")
    /\ MetricValue("Coran") > 0
    /\ norm_out[1].r[1][2] = MetricValue("Bible")

(* A fraction <<n, d>> (d # 0) equal to 100.                                *)
Is100(q) == q[1] = 100 * q[2]

Hundreds == {j \in DOMAIN BookList : Is100(norm_out[j].r[1])}

SomePositive == \E b \in Books : MetricValue(b) > 0

(* C5 as stated: whenever at least one book has a positive value, exactly   *)
(* one of the three normalized values is 100.                               *)
C5_ExactlyOneHundred ==
    (norm_out # <<>> /\ SomePositive) => Cardinality(Hundreds) = 1

(* C5 as amended: whenever at least one book has a positive value, the      *)
(* normalized values equal to 100 are those of the books that attain the    *)
(* maximum: at least one, and exactly one when a single book attains it.    *)
C5_HundredAtEachMaximum ==
    (norm_out # <<>> /\ SomePositive) =>
        /\ Hundreds = {j \in DOMAIN BookList : MetricValue(BookList[j]) = MetricMaximum}
        /\ Cardinality(Hundreds) >= 1
        /\ (Cardinality({b \in Books : MetricValue(b) = MetricMaximum}) = 1
                => Cardinality(Hundreds) = 1)

C5_Witness ==
    /\ norm_out # <<>>
    /\ SomePositive
    /\ Cardinality(Hundreds) = 2
    /\ MetricValue("Torah") = MetricValue("Bible")

(* A fraction <<n, d>> (d # 0) inside [0, 100].                             *)
In0To100(q) ==
    IF q[2] > 0 THEN 0 <= q[1] /\ q[1] <= 100 * q[2]
                ELSE q[1] <= 0 /\ 100 * q[2] <= q[1]

(* C6 as stated: for any metric field of the three fixed records every      *)
(* normalized value lies in [0, 100].                                       *)
C6_AnyMetricIn0To100 ==
    (norm_out # <<>> /\ books_data = load_advanced_data) =>
        \A j \in DOMAIN BookList : In0To100(norm_out[j].r[1])

(* C6 as amended: for every metric field of the three fixed records other   *)
(* than manuscripts_earliest, so for the five structural metrics the code   *)
(* normalizes, every normalized value lies in [0, 100]; for                 *)
(* manuscripts_earliest the value of Torah is negative.                     *)
C6_StructuralIn0To100 ==
    (norm_out # <<>> /\ books_data = load_advanced_data) =>
        IF metric_name[2] = "manuscripts_earliest"
        THEN ~In0To100(norm_out[2].r[1])
        ELSE \A j \in DOMAIN BookList : In0To100(norm_out[j].r[1])

C6_Witness ==
    /\ norm_out # <<>>
    /\ books_data = load_advanced_data
    /\ metric_name = <<"structural_analysis", "vocabulary_richness">>
    /\ Is100(norm_out[3].r[1])
    /\ ~Is100(norm_out[1].r[1])

(* books_data with one field of one book given another value.               *)
Changed(book, m, k) ==
    [books_data EXCEPT ![book][m[1]][m[2]] = Level(k, 1000)]

(* C7: for any two distinct books A and B, changing any single input field  *)
(* of A's record leaves B's composite score and B's structural complexity   *)
(* index unchanged.                                                         *)
C7_NoCrossContamination ==
    \A A \in Books : \A B \in Books \ {A} : \A m \in MetricNames : \A k \in LevelIdx :
        /\ (composite_score # <<>> /\ selected_book = B) =>
                composite_score[1] = composite_score_of(Changed(A, m, k), B)
        /\ complexity_data # <<>> =>
                \A j \in DOMAIN BookList :
                    BookList[j] = B =>
                        complexity_data[j].Complexite = complexity_score(Changed(A, m, k), B)

C7_Witness ==
    /\ composite_score # <<>>
    /\ selected_book = "Torah"
    /\ \E k \in LevelIdx :
        composite_score_of(
            Changed("Coran", <<"historical_impact", "legal_influence">>, k), "Coran")
        # composite_score_of(books_data, "Coran")

(* C8: the records and the auxiliary tables are never mutated: after any    *)
(* sequence of runs, with any analysis type and any selected book, they     *)
(* equal what the constructor loaded.                                       *)
C8_TablesNeverMutated ==
    /\ books_data = load_advanced_data
    /\ thematic_data = load_thematic_analysis
    /\ linguistic_data = load_linguistic_analysis
    /\ historical_data = load_historical_analysis

C8_Witness ==
    /\ runs > 1
    /\ pc = "done"
    /\ rendered = <<"header", "structural_analysis", "footer">>
    /\ books_data = load_advanced_data

AnyFieldMissing ==
    \E b \in Books : \E m \in MetricNames : ~Has(books_data, b, m[1], m[2])

(* C9: if any field is missing from any book record the program fails at    *)
(* startup, before any section is rendered and whichever analysis type is   *)
(* selected: the run never gets as far as a rendered section.               *)
C9_MissingFieldFatalAtStartup ==
    AnyFieldMissing => pc \notin {"footer", "done"}

(* C10: every one of the three records supplies all fifteen fields, so no   *)
(* field lookup made by any view fails.                                     *)
C10_AllFieldsSupplied ==
    /\ \A b \in Books : \A m \in MetricNames : Has(books_data, b, m[1], m[2])
    /\ pc # "failed"

C10_Witness ==
    /\ pc = "done"
    /\ rendered = <<"header", "metrics_dashboard", "footer">>
    /\ selected_book = "Bible"

(* C11: every score of every book record lies within its documented range: *)
(* vocabulary_richness in 0-1, repetition_rate and oral_preservation in     *)
(* 0-100, thematic_cohesion, grammatical_complexity, semantic_density and   *)
(* legal_influence in 0-10.                                                 *)
C11_ScoresInRange ==
    \A b \in Books :
        /\ Field(b, "structural_analysis", "vocabulary_richness") \in 0..100
        /\ Field(b, "structural_analysis", "repetition_rate") \in 0..1000
        /\ Field(b, "linguistic_features", "oral_preservation") \in 0..1000
        /\ Field(b, "structural_analysis", "thematic_cohesion") \in 0..100
        /\ Field(b, "linguistic_features", "grammatical_complexity") \in 0..100
        /\ Field(b, "linguistic_features", "semantic_density") \in 0..100
        /\ Field(b, "historical_impact", "legal_influence") \in 0..100

C11_Witness ==
    /\ pc = "done"
    /\ runs > 1
    /\ rendered = <<"header", "linguistic_analysis", "footer">>
    /\ linguistic_view # <<>>
    /\ Field("Bible", "structural_analysis", "repetition_rate") = 158

(* The score the overview shows for each book, in tenths: 9.5, 9.2, 9.1.    *)
DisplayedFor(book) ==
    CASE book = "Coran" -> 95
      [] book = "Torah" -> 92
      [] book = "Bible" -> 91

(* C12: after any sequence of book selections in the overview the book      *)
(* identifier is one of the three fixed keys, the record lookup never       *)
(* fails, and the composite score displayed is the one computed from the    *)
(* record of the currently selected book.                                   *)
C12_DisplayedScoreOfSelectedBook ==
    /\ selected_book \in Books
    /\ pc # "failed"
    /\ (composite_score = <<>>) = (composite_display = <<>>)
    /\ composite_display # <<>> =>
        /\ selected_book \in DOMAIN books_data
        /\ composite_display = <<DisplayedFor(selected_book)>>
        /\ 1000 * composite_display[1] - 500 <= composite_score[1]
        /\ composite_score[1] <= 1000 * composite_display[1] + 500
        /\ composite_score[1] =
              200 * Field(selected_book, "structural_analysis", "thematic_cohesion")
            + 250 * Field(selected_book, "linguistic_features", "semantic_density")
            + 300 * Field(selected_book, "historical_impact", "legal_influence")
            + 25 * Field(selected_book, "linguistic_features", "oral_preservation")

C12_Witness ==
    /\ previous_run # <<>>
    /\ previous_run[1].selected_book = "Bible"
    /\ previous_run[1].composite_display = <<91>>
    /\ selected_book = "Torah"
    /\ composite_display = <<92>>
    /\ pc = "done"

SectionOf(type) ==
    CASE type = "Vue d'ensemble" -> "metrics_dashboard"
      [] type = "Structure"      -> "structural_analysis"
      [] type = "Linguistique"   -> "linguistic_analysis"
      [] type = "Thématiques"    -> "thematic_network_analysis"
      [] type = "Historique"     -> "historical_evolution"
      [] type = "Insights"       -> "comparative_insights"

(* C14: in every run, for each of the six analysis types, the header is     *)
(* rendered first, then exactly the one section mapped to the selected      *)
(* analysis type, and the footer last; no other section is rendered.        *)
C14_HeaderSectionFooter ==
    /\ analysis_type \in AnalysisTypes
    /\ pc \in {"start", "header"} => rendered = <<>>
    /\ pc = "section" => rendered = <<"header">>
    /\ pc = "footer" => rendered = <<"header", SectionOf(analysis_type)>>
    /\ pc = "done" => rendered = <<"header", SectionOf(analysis_type), "footer">>

C14_Witness ==
    /\ pc = "done"
    /\ analysis_type = "Insights"
    /\ rendered = <<"header", "comparative_insights", "footer">>
    /\ previous_run # <<>>
    /\ previous_run[1].rendered = <<"header", "thematic_network_analysis", "footer">>

(* The position at which node i of a figure is drawn.                       *)
DrawnAt(fig, i) == <<fig.node_x[i], fig.node_y[i]>>

(* C15: in the thematic network of each book every link endpoint is a node  *)
(* of that book with a defined position, and distinct nodes of the same     *)
(* book are drawn at pairwise distinct positions, so no link has zero       *)
(* length and no two nodes overlap.                                         *)
C15_NetworkWellDrawn ==
    network_view # <<>> =>
        \A j \in DOMAIN network_view :
            LET fig == network_view[j]
                network == thematic_networks[fig.book]
                names == {network.noeuds[i] : i \in DOMAIN network.noeuds}
            IN  /\ \A i \in DOMAIN network.liens :
                    /\ network.liens[i][1] \in names \cap DOMAIN node_positions
                    /\ network.liens[i][2] \in names \cap DOMAIN node_positions
                /\ \A a \in DOMAIN fig.text : \A b \in DOMAIN fig.text :
                    fig.text[a] # fig.text[b] => DrawnAt(fig, a) # DrawnAt(fig, b)
                /\ \A i \in DOMAIN fig.links :
                    <<fig.links[i].x[1], fig.links[i].y[1]>>
                        # <<fig.links[i].x[2], fig.links[i].y[2]>>

(* C16: the duplicated linguistic table agrees with the book records: for  *)
(* every book 'Complexité Syntaxique' is the record's                       *)
(* grammatical_complexity, 'Densité Sémantique' its semantic_density,       *)
(* 'Richesse Lexicale' its vocabulary_richness and 'Répétition Stylistique' *)
(* its repetition_rate, so the header total read from the table is the      *)
(* total of the records.                                                    *)
C16_LinguisticTableAgrees ==
    /\ \A b \in Books :
        /\ linguistic_data["Complexité Syntaxique"][b]
            = Field(b, "linguistic_features", "grammatical_complexity")
        /\ linguistic_data["Densité Sémantique"][b]
            = Field(b, "linguistic_features", "semantic_density")
        /\ linguistic_data["Richesse Lexicale"][b]
            = Field(b, "structural_analysis", "vocabulary_richness")
        /\ linguistic_data["Répétition Stylistique"][b]
            = Field(b, "structural_analysis", "repetition_rate")
    /\ header_metrics # <<>> =>
        header_metrics.total_complexity =
              Field("Coran", "linguistic_features", "grammatical_complexity")
            + Field("Torah", "linguistic_features", "grammatical_complexity")
            + Field("Bible", "linguistic_features", "grammatical_complexity")

C16_Witness ==
    /\ pc = "done"
    /\ rendered = <<"header", "linguistic_analysis", "footer">>
    /\ header_metrics # <<>>
    /\ header_metrics.total_complexity = 248
    /\ linguistic_view[3].complexity_score = 850

(* What a run showed: the components in order and every computed value.     *)
Shown(r) ==
    <<r.rendered, r.header_metrics, r.traces, r.complexity_data, r.composite_score,
      r.composite_display, r.linguistic_view, r.network_view>>

(* C17: the two sidebar checkboxes have no effect on the output: two runs   *)
(* with the same analysis type and selected book render the same header,    *)
(* section and footer with the same computed values, whatever the values    *)
(* of show_technical and show_comparative in each.                          *)
C17_CheckboxesWithoutEffect ==
    (/\ previous_run # <<>>
     /\ pc = "done") =>
        ((/\ previous_run[1].pc = "done"
          /\ previous_run[1].analysis_type = analysis_type
          /\ previous_run[1].selected_book = selected_book)
            => Shown(previous_run[1]) = Shown(RunRecord))

C17_Witness ==
    /\ previous_run # <<>>
    /\ pc = "done"
    /\ previous_run[1].pc = "done"
    /\ previous_run[1].analysis_type = "Vue d'ensemble"
    /\ analysis_type = "Vue d'ensemble"
    /\ previous_run[1].selected_book = "Bible"
    /\ selected_book = "Bible"
    /\ previous_run[1].show_technical # show_technical
    /\ previous_run[1].show_comparative # show_comparative
    /\ Shown(previous_run[1]) = Shown(RunRecord)
    /\ composite_display = <<91>>

=============================================================================
